---- MODULE Spec2Model ----
(***************************************************************************)
(* Model of src/advanced-vector/vector.h: RawMemory<T> (an owning block of *)
(* uninitialised slots) and Vector<T> (the container built on it).         *)
(*                                                                         *)
(* The heap is a map from block addresses to the slots of the block. A     *)
(* slot holds Raw (no object lives there), Moved (a live object in its     *)
(* moved-from state) or a value of T. A Vector is the triple               *)
(* (data_.buffer_, data_.capacity_, size_). Every public operation is one  *)
(* action that runs the whole member function, including the unwinding     *)
(* when an element operation throws. Which element operation throws is an  *)
(* input: f = 0 means none, f = k means the k-th one that may throw.       *)
(***************************************************************************)
EXTENDS Integers, Sequences, FiniteSets, TLC

\* vec: the containers; heap: the storage blocks; nothrow_move: the branch
\* the if constexpr of T takes; last: the record of the last call; crashed:
\* the program was stopped by undefined behaviour; count: completed pushes and
\* pops; scope: the containers that are constructed; copied: one container
\* was produced from the other by a copy.
VARIABLES vec, heap, nothrow_move, last, crashed, count, scope, copied

vars == <<vec, heap, nothrow_move, last, crashed, count, scope, copied>>

\* ------------------------------------------------------------- bounds
MaxCap == 4
MaxCapTwo == 2
MaxOps == 6
MaxSized == 1

\* ------------------------------------------------------------- universe
Vecs == {"a", "b"}
Values == {0, 1}
Raw == -1
DefaultValue == 0
Moved == DefaultValue
NumBlocks == Cardinality(Vecs) + 1
Blocks == 1..NumBlocks
NullVector == [buffer_ |-> 0, capacity_ |-> 0, size_ |-> 0]

\* ------------------------------------------------------------- machine
\* The running state of one member function: the heap, the countdown to the
\* element operation that throws, the number of element operations that could
\* have thrown so far, and the tallies of what went wrong with
\* object lifetime: bad counts destroy/read/assign on a slot holding no
\* object, leak counts live objects overwritten by a construction or still
\* in a block when it is released, refree counts releases of a block that is
\* not allocated. trace lists the steps taken on blocks, in program order.
Machine(h, f) ==
    [h |-> h, f |-> f, threw |-> FALSE, ops |-> 0, bad |-> 0, leak |-> 0,
     refree |-> 0, trace |-> <<>>]

\* Step e on block b, appended to the trace of the call.
Log(m, e, b) == [m EXCEPT !.trace = Append(@, <<e, b>>)]

Dec(f, n) == IF f > n THEN f - n ELSE 0

Slot(h, b, i) == h[b][i + 1]

IsLive(x) == x # Raw

\* The value a copy or move reads from a source slot.
CopyOf(x) == IF x = Raw THEN Moved ELSE x

\* Slots lo..hi-1 of block b set to x; the rest kept.
Fill(h, b, lo, hi, x) ==
    IF b = 0 THEN h
    ELSE [h EXCEPT ![b] = [j \in 1..Len(h[b]) |->
              IF lo <= j - 1 /\ j - 1 < hi THEN x ELSE h[b][j]]]

\* Slots doff..doff+n-1 of block db set to the values of slots soff.. of sb.
CopyRange(h, db, doff, n, sb, soff) ==
    IF db = 0 THEN h
    ELSE [h EXCEPT ![db] = [j \in 1..Len(h[db]) |->
              IF doff <= j - 1 /\ j - 1 < doff + n
              THEN CopyOf(h[sb][soff + (j - doff)]) ELSE h[db][j]]]

\* How many of the slots lo..hi-1 of block b hold an object (live), or none.
CountIn(h, b, lo, hi, live) ==
    IF b = 0 THEN 0
    ELSE Cardinality({i \in lo..(hi - 1) : i < Len(h[b]) /\ (h[b][i + 1] # Raw) = live})

\* ------------------------------------------------------------- RawMemory
Allocate(h, n) ==
    IF n = 0 THEN 0
    ELSE CHOOSE b \in Blocks : h[b] = <<>> /\ \A c \in Blocks : h[c] = <<>> => b <= c

RawMemory(m, n) ==
    LET b == Allocate(m.h, n)
    IN [m |-> IF n = 0 THEN Log(m, "allocate", 0)
              ELSE Log([m EXCEPT !.h = [m.h EXCEPT ![b] = [j \in 1..n |-> Raw]]],
                       "allocate", b),
        data |-> [buffer_ |-> b, capacity_ |-> n]]

Deallocate(m, b) ==
    IF b = 0 THEN Log(m, "release", 0)
    ELSE Log([m EXCEPT !.h = [m.h EXCEPT ![b] = <<>>],
                       !.leak = m.leak + CountIn(m.h, b, 0, Len(m.h[b]), TRUE),
                       !.refree = IF m.h[b] = <<>> THEN m.refree + 1 ELSE m.refree],
             "release", b)

\* ------------------------------------------------------------- <memory>
destroy_n(m, b, off, n) ==
    Log([m EXCEPT !.h = Fill(m.h, b, off, off + n, Raw),
                  !.bad = m.bad + CountIn(m.h, b, off, off + n, FALSE)],
        "destroy", b)

\* Placement new of one T from value x at slot i of block b; may throw.
construct_at(m, b, i, x) ==
    IF m.f = 1 THEN [m EXCEPT !.f = 0, !.threw = TRUE]
    ELSE Log([m EXCEPT !.h = Fill(m.h, b, i, i + 1, x),
                       !.f = Dec(m.f, 1), !.ops = m.ops + 1,
                       !.leak = m.leak + CountIn(m.h, b, i, i + 1, TRUE)],
             "construct", b)

\* std::uninitialized_copy_n: on a throw the copies made so far are destroyed.
uninitialized_copy_n(m, sb, soff, n, db, doff) ==
    IF m.f >= 1 /\ m.f <= n
    THEN [m EXCEPT !.f = 0, !.threw = TRUE,
                   !.h = Fill(m.h, db, doff, doff + (m.f - 1), Raw),
                   !.bad = m.bad + CountIn(m.h, sb, soff, soff + (m.f - 1), FALSE),
                   !.leak = m.leak + CountIn(m.h, db, doff, doff + (m.f - 1), TRUE)]
    ELSE Log([m EXCEPT !.f = Dec(m.f, n), !.ops = m.ops + n,
                       !.h = CopyRange(m.h, db, doff, n, sb, soff),
                       !.bad = m.bad + CountIn(m.h, sb, soff, soff + n, FALSE),
                       !.leak = m.leak + CountIn(m.h, db, doff, doff + n, TRUE)],
             "transfer", db)

\* std::uninitialized_move_n with a move constructor that cannot throw: the
\* sources stay alive in their moved-from state.
uninitialized_move_n(m, sb, soff, n, db, doff) ==
    LET h1 == CopyRange(m.h, db, doff, n, sb, soff)
    IN Log([m EXCEPT !.h = Fill(h1, sb, soff, soff + n, Moved),
                     !.bad = m.bad + CountIn(m.h, sb, soff, soff + n, FALSE),
                     !.leak = m.leak + CountIn(m.h, db, doff, doff + n, TRUE)],
           "transfer", db)

\* std::uninitialized_value_construct_n: T() in each slot, rolled back on a throw.
uninitialized_value_construct_n(m, b, off, n) ==
    IF m.f >= 1 /\ m.f <= n
    THEN [m EXCEPT !.f = 0, !.threw = TRUE,
                   !.h = Fill(m.h, b, off, off + (m.f - 1), Raw),
                   !.leak = m.leak + CountIn(m.h, b, off, off + (m.f - 1), TRUE)]
    ELSE Log([m EXCEPT !.f = Dec(m.f, n), !.ops = m.ops + n,
                       !.h = Fill(m.h, b, off, off + n, DefaultValue),
                       !.leak = m.leak + CountIn(m.h, b, off, off + n, TRUE)],
             "construct", b)

\* Whether a move of T may throw: the model's element types are the ones whose
\* moves never throw (nothrow_move) and the copyable ones whose every
\* constructor and assignment may throw.
MoveMayThrow == ~nothrow_move

\* new (b + di) T(std::move(b[si])): the source stays alive, moved-from.
move_construct(m, b, di, si) ==
    IF MoveMayThrow /\ m.f = 1 THEN [m EXCEPT !.f = 0, !.threw = TRUE]
    ELSE LET h1 == Fill(m.h, b, di, di + 1, CopyOf(Slot(m.h, b, si)))
         IN [m EXCEPT !.h = Fill(h1, b, si, si + 1, Moved),
                      !.f = IF MoveMayThrow THEN Dec(m.f, 1) ELSE m.f,
                      !.ops = IF MoveMayThrow THEN m.ops + 1 ELSE m.ops,
                      !.bad = m.bad + CountIn(m.h, b, si, si + 1, FALSE),
                      !.leak = m.leak + CountIn(m.h, b, di, di + 1, TRUE)]

\* b[di] = std::move(b[si]); a throw leaves both objects as they were.
move_assign(m, b, di, si) ==
    IF MoveMayThrow /\ m.f = 1 THEN [m EXCEPT !.f = 0, !.threw = TRUE]
    ELSE LET h1 == Fill(m.h, b, di, di + 1, CopyOf(Slot(m.h, b, si)))
         IN [m EXCEPT !.h = Fill(h1, b, si, si + 1, Moved),
                      !.f = IF MoveMayThrow THEN Dec(m.f, 1) ELSE m.f,
                      !.ops = IF MoveMayThrow THEN m.ops + 1 ELSE m.ops,
                      !.bad = m.bad + CountIn(m.h, b, si, si + 1, FALSE)
                                    + CountIn(m.h, b, di, di + 1, FALSE)]

\* b[di] = std::move(temp), temp a local object holding x.
move_assign_value(m, b, di, x) ==
    IF MoveMayThrow /\ m.f = 1 THEN [m EXCEPT !.f = 0, !.threw = TRUE]
    ELSE [m EXCEPT !.h = Fill(m.h, b, di, di + 1, x),
                   !.f = IF MoveMayThrow THEN Dec(m.f, 1) ELSE m.f,
                      !.ops = IF MoveMayThrow THEN m.ops + 1 ELSE m.ops,
                   !.bad = m.bad + CountIn(m.h, b, di, di + 1, FALSE)]

\* db[di] = sb[si] by copy assignment; may throw for every T.
copy_assign(m, db, di, sb, si) ==
    IF m.f = 1 THEN [m EXCEPT !.f = 0, !.threw = TRUE]
    ELSE [m EXCEPT !.h = Fill(m.h, db, di, di + 1, CopyOf(Slot(m.h, sb, si))),
                   !.f = Dec(m.f, 1), !.ops = m.ops + 1,
                   !.bad = m.bad + CountIn(m.h, sb, si, si + 1, FALSE)
                                 + CountIn(m.h, db, di, di + 1, FALSE)]

\* Mutant: the shift done front to back, as std::move would do it.
RECURSIVE move_backward_ascending(_, _, _, _, _)
move_backward_ascending(m, b, first, lst, d_last) ==
    IF m.threw \/ first >= lst THEN m
    ELSE move_backward_ascending(move_assign(m, b, d_last - (lst - first), first),
                                 b, first + 1, lst, d_last)

\* std::move_backward(b + first, b + lst, b + d_last), one assignment at a time.
RECURSIVE move_backward(_, _, _, _, _)
move_backward(m, b, first, lst, d_last) ==
    IF m.threw \/ first >= lst THEN m
    ELSE move_backward(move_assign(m, b, d_last - 1, lst - 1), b, first, lst - 1, d_last - 1)

\* std::move(b + first, b + lst, b + d_first), one assignment at a time.
RECURSIVE move_forward(_, _, _, _, _)
move_forward(m, b, first, lst, d_first) ==
    IF m.threw \/ first >= lst THEN m
    ELSE move_forward(move_assign(m, b, d_first, first), b, first + 1, lst, d_first + 1)

\* ------------------------------------------------------------- arguments
\* What a call passes for the new element: a value, or a reference to the
\* slot (block, index) that holds element i of the container at call time.
ByValue(x) == [ref |-> FALSE, x |-> x, b |-> 0, i |-> 0]
ByRef(v, i) == [ref |-> TRUE, x |-> 0, b |-> v.buffer_, i |-> i]

IsDeadRef(h, arg) ==
    arg.ref /\ (arg.b = 0 \/ arg.i >= Len(h[arg.b]) \/ Slot(h, arg.b, arg.i) = Raw)

\* The value T's copy constructor reads through the argument, now.
ArgValue(h, arg) ==
    IF ~arg.ref THEN arg.x
    ELSE IF IsDeadRef(h, arg) THEN Moved
    ELSE Slot(h, arg.b, arg.i)

\* new (b + i) T(std::forward<Args>(args)...)
emplace_at(m, b, i, arg) ==
    LET m1 == construct_at(m, b, i, ArgValue(m.h, arg))
    IN IF m1.threw \/ ~IsDeadRef(m.h, arg) THEN m1 ELSE [m1 EXCEPT !.bad = m1.bad + 1]

\* ------------------------------------------------------------- Vector
Swap_data(v, nd) ==
    [v |-> [v EXCEPT !.buffer_ = nd.buffer_, !.capacity_ = nd.capacity_],
     nd |-> [buffer_ |-> v.buffer_, capacity_ |-> v.capacity_]]

\* Mutant: the blocks are swapped before the old elements are destroyed.
TransferAndSwap_swap_first(m, v, nd) ==
    LET m1 == IF nothrow_move
              THEN uninitialized_move_n(m, v.buffer_, 0, v.size_, nd.buffer_, 0)
              ELSE uninitialized_copy_n(m, v.buffer_, 0, v.size_, nd.buffer_, 0)
    IN IF m1.threw THEN [m |-> m1, v |-> v, nd |-> nd]
       ELSE LET sw == Swap_data(v, nd)
            IN [m |-> destroy_n(Log(m1, "swap", nd.buffer_), v.buffer_, 0, v.size_),
                v |-> sw.v, nd |-> sw.nd]

TransferAndSwap(m, v, nd) ==
    LET m1 == IF nothrow_move
              THEN uninitialized_move_n(m, v.buffer_, 0, v.size_, nd.buffer_, 0)
              ELSE uninitialized_copy_n(m, v.buffer_, 0, v.size_, nd.buffer_, 0)
    IN IF m1.threw THEN [m |-> m1, v |-> v, nd |-> nd]
       ELSE LET sw == Swap_data(v, nd)
            IN [m |-> Log(destroy_n(m1, v.buffer_, 0, v.size_), "swap", nd.buffer_),
                v |-> sw.v, nd |-> sw.nd]

\* Mutant: room for one more element only.
GrownCapacity_by_one(v) == v.size_ + 1

GrownCapacity(v) == IF v.size_ = 0 THEN 1 ELSE v.size_ * 2

\* Mutant: a request equal to the capacity reallocates too.
Reserve_strict(m, v, new_capacity) ==
    IF new_capacity < v.capacity_ \/ new_capacity = 0 THEN [m |-> m, v |-> v, ret |-> 0]
    ELSE LET r == RawMemory(m, new_capacity)
             t == TransferAndSwap(r.m, v, r.data)
         IN [m |-> Deallocate(t.m, t.nd.buffer_), v |-> t.v, ret |-> 0]

Reserve(m, v, new_capacity) ==
    IF new_capacity <= v.capacity_ THEN [m |-> m, v |-> v, ret |-> 0]
    ELSE LET r == RawMemory(m, new_capacity)
             t == TransferAndSwap(r.m, v, r.data)
         IN [m |-> Deallocate(t.m, t.nd.buffer_), v |-> t.v, ret |-> 0]

\* Mutant: no catch block; a throw in TransferAndSwap leaves the new element alive.
EmplaceBack_no_catch(m, v, arg) ==
    IF v.size_ = v.capacity_
    THEN LET r == RawMemory(m, GrownCapacity(v))
             m1 == emplace_at(r.m, r.data.buffer_, v.size_, arg)
             t == TransferAndSwap(m1, v, r.data)
         IN IF m1.threw \/ t.m.threw
            THEN [m |-> Deallocate(IF m1.threw THEN m1 ELSE t.m, r.data.buffer_),
                  v |-> v, ret |-> 0]
            ELSE [m |-> Deallocate(t.m, t.nd.buffer_),
                  v |-> [t.v EXCEPT !.size_ = v.size_ + 1], ret |-> v.size_]
    ELSE LET m1 == emplace_at(m, v.buffer_, v.size_, arg)
         IN IF m1.threw THEN [m |-> m1, v |-> v, ret |-> 0]
            ELSE [m |-> m1, v |-> [v EXCEPT !.size_ = v.size_ + 1], ret |-> v.size_]

\* Mutant: the old elements are relocated before the new one is constructed.
EmplaceBack_transfer_first(m, v, arg) ==
    IF v.size_ = v.capacity_
    THEN LET r == RawMemory(m, GrownCapacity(v))
             t == TransferAndSwap(r.m, v, r.data)
             m1 == emplace_at(t.m, t.v.buffer_, v.size_, arg)
         IN IF t.m.threw \/ m1.threw
            THEN [m |-> Deallocate(m1, r.data.buffer_), v |-> v, ret |-> 0]
            ELSE [m |-> Deallocate(m1, t.nd.buffer_),
                  v |-> [t.v EXCEPT !.size_ = v.size_ + 1], ret |-> v.size_]
    ELSE LET m1 == emplace_at(m, v.buffer_, v.size_, arg)
         IN IF m1.threw THEN [m |-> m1, v |-> v, ret |-> 0]
            ELSE [m |-> m1, v |-> [v EXCEPT !.size_ = v.size_ + 1], ret |-> v.size_]

EmplaceBack(m, v, arg) ==
    IF v.size_ = v.capacity_
    THEN LET r == RawMemory(m, GrownCapacity(v))
             m1 == emplace_at(r.m, r.data.buffer_, v.size_, arg)
             t == TransferAndSwap(m1, v, r.data)
         IN IF m1.threw
            THEN [m |-> Deallocate(m1, r.data.buffer_), v |-> v, ret |-> 0]
            ELSE IF t.m.threw
            THEN [m |-> Deallocate(destroy_n(t.m, r.data.buffer_, v.size_, 1),
                                   r.data.buffer_),
                  v |-> v, ret |-> 0]
            ELSE [m |-> Deallocate(t.m, t.nd.buffer_),
                  v |-> [t.v EXCEPT !.size_ = v.size_ + 1], ret |-> v.size_]
    ELSE LET m1 == emplace_at(m, v.buffer_, v.size_, arg)
         IN IF m1.threw THEN [m |-> m1, v |-> v, ret |-> 0]
            ELSE [m |-> m1, v |-> [v EXCEPT !.size_ = v.size_ + 1], ret |-> v.size_]

\* Mutant: the last element is destroyed and size_ is left as it was.
PopBack_keeps_size(m, v) ==
    [m |-> destroy_n(m, v.buffer_, v.size_ - 1, 1), v |-> v, ret |-> 0]

PopBack(m, v) ==
    [m |-> destroy_n(m, v.buffer_, v.size_ - 1, 1),
     v |-> [v EXCEPT !.size_ = v.size_ - 1], ret |-> 0]

\* T temp(std::forward<Args>(args)...): a local object, not in the heap.
make_temp(m, arg) ==
    IF m.f = 1 THEN [m EXCEPT !.f = 0, !.threw = TRUE]
    ELSE [m EXCEPT !.f = Dec(m.f, 1), !.ops = m.ops + 1,
                   !.bad = m.bad + (IF IsDeadRef(m.h, arg) THEN 1 ELSE 0)]

\* The relocation of Emplace's reallocating branch (lines 244-256), with the
\* catch block's cleanup when a copy throws.
EmplaceRelocate(m, v, nd, p) ==
    IF nothrow_move
    THEN uninitialized_move_n(
             uninitialized_move_n(m, v.buffer_, 0, p, nd.buffer_, 0),
             v.buffer_, p, v.size_ - p, nd.buffer_, p + 1)
    ELSE LET m1 == uninitialized_copy_n(m, v.buffer_, 0, p, nd.buffer_, 0)
             m2 == IF m1.threw THEN m1
                   ELSE uninitialized_copy_n(m1, v.buffer_, p, v.size_ - p, nd.buffer_, p + 1)
         IN IF m2.threw THEN destroy_n(m2, nd.buffer_, 0, p + 1) ELSE m2

\* Mutant: no temporary; the argument is read after the elements were shifted.
EmplaceShift_no_temp(m, v, p, arg) ==
    LET m2 == move_construct(m, v.buffer_, v.size_, v.size_ - 1)
        m3 == move_backward(m2, v.buffer_, p, v.size_ - 1, v.size_)
        m4 == IF m3.threw THEN m3
              ELSE move_assign_value(m3, v.buffer_, p, ArgValue(m3.h, arg))
    IN IF m2.threw THEN m2
       ELSE IF m4.threw THEN destroy_n(m4, v.buffer_, v.size_, 1)
       ELSE m4

\* Emplace's in-place branch when pos # end() (lines 266-275).
EmplaceShift(m, v, p, arg) ==
    LET m1 == make_temp(m, arg)
        temp == ArgValue(m.h, arg)
        m2 == IF m1.threw THEN m1 ELSE move_construct(m1, v.buffer_, v.size_, v.size_ - 1)
        m3 == move_backward(m2, v.buffer_, p, v.size_ - 1, v.size_)
        m4 == IF m3.threw THEN m3 ELSE move_assign_value(m3, v.buffer_, p, temp)
    IN IF m2.threw THEN m2
       ELSE IF m4.threw THEN destroy_n(m4, v.buffer_, v.size_, 1)
       ELSE m4

Emplace(m, v, num_position, arg) ==
    IF v.size_ = v.capacity_
    THEN LET r == RawMemory(m, GrownCapacity(v))
             m1 == emplace_at(r.m, r.data.buffer_, num_position, arg)
             m2 == EmplaceRelocate(m1, v, r.data, num_position)
             sw == Swap_data(v, r.data)
         IN IF m1.threw
            THEN [m |-> Deallocate(m1, r.data.buffer_), v |-> v, ret |-> 0]
            ELSE IF m2.threw
            THEN [m |-> Deallocate(m2, r.data.buffer_), v |-> v, ret |-> 0]
            ELSE [m |-> Deallocate(Log(destroy_n(m2, v.buffer_, 0, v.size_),
                                       "swap", r.data.buffer_),
                                   sw.nd.buffer_),
                  v |-> [sw.v EXCEPT !.size_ = v.size_ + 1], ret |-> num_position]
    ELSE LET m1 == IF num_position = v.size_
                   THEN emplace_at(m, v.buffer_, v.size_, arg)
                   ELSE EmplaceShift(m, v, num_position, arg)
         IN IF m1.threw THEN [m |-> m1, v |-> v, ret |-> 0]
            ELSE [m |-> m1, v |-> [v EXCEPT !.size_ = v.size_ + 1], ret |-> num_position]

\* Mutant: the elements after pos are not moved down before the last is popped.
Erase_pop_only(m, v, num_position) ==
    [PopBack(m, v) EXCEPT !.ret = num_position]

Erase(m, v, num_position) ==
    IF num_position = v.size_
    THEN [PopBack(m, v) EXCEPT !.ret = v.size_ - 1]
    ELSE LET m1 == move_forward(m, v.buffer_, num_position + 1, v.size_, num_position)
         IN IF m1.threw THEN [m |-> m1, v |-> v, ret |-> 0]
            ELSE [PopBack(m1, v) EXCEPT !.ret = num_position]

\* Mutant: shrinking only lowers size_; the tail elements are not destroyed.
Resize_keeps_tail(m, v, new_size) ==
    IF new_size < v.size_
    THEN [m |-> m, v |-> [v EXCEPT !.size_ = new_size], ret |-> 0]
    ELSE LET r == Reserve(m, v, IF new_size > v.capacity_ THEN new_size ELSE v.size_)
             m1 == uninitialized_value_construct_n(r.m, r.v.buffer_, v.size_, new_size - v.size_)
         IN IF r.m.threw THEN r
            ELSE IF m1.threw THEN [m |-> m1, v |-> r.v, ret |-> 0]
            ELSE [m |-> m1, v |-> [r.v EXCEPT !.size_ = new_size], ret |-> 0]

Resize(m, v, new_size) ==
    IF new_size < v.size_
    THEN [m |-> destroy_n(m, v.buffer_, new_size, v.size_ - new_size),
          v |-> [v EXCEPT !.size_ = new_size], ret |-> 0]
    ELSE LET r == Reserve(m, v, IF new_size > v.capacity_ THEN new_size ELSE v.size_)
             m1 == uninitialized_value_construct_n(r.m, r.v.buffer_, v.size_, new_size - v.size_)
         IN IF r.m.threw THEN r
            ELSE IF m1.threw THEN [m |-> m1, v |-> r.v, ret |-> 0]
            ELSE [m |-> m1, v |-> [r.v EXCEPT !.size_ = new_size], ret |-> 0]

\* Vector::Swap
Swap(v, w) == [v |-> w, w |-> v]

\* ~Vector, then ~RawMemory of its data_.
Destroy(m, v) == Deallocate(destroy_n(m, v.buffer_, 0, v.size_), v.buffer_)

\* Mutant: the copy takes over the block of the original.
CopyConstruct_shallow(m, other) == [m |-> m, v |-> other]

\* Vector(const Vector& other); when a copy throws, data_ is released again.
CopyConstruct(m, other) ==
    LET r == RawMemory(m, other.size_)
        m1 == uninitialized_copy_n(r.m, other.buffer_, 0, other.size_, r.data.buffer_, 0)
    IN IF m1.threw THEN [m |-> Deallocate(m1, r.data.buffer_), v |-> NullVector]
       ELSE [m |-> m1,
             v |-> [buffer_ |-> r.data.buffer_, capacity_ |-> other.size_,
                    size_ |-> other.size_]]

\* for(size_t i = 0; i < n; ++i){ data_[i] = other.data_[i];}
RECURSIVE AssignLoop(_, _, _, _, _)
AssignLoop(m, db, sb, i, n) ==
    IF m.threw \/ i >= n THEN m
    ELSE AssignLoop(copy_assign(m, db, i, sb, i), db, sb, i + 1, n)

\* Mutant: the copy is always made in a temporary that is swapped in.
CopyAssign_via_temp(m, v, other, same) ==
    IF same THEN [m |-> m, v |-> v, ret |-> 0]
    ELSE LET t == CopyConstruct(m, other)
             sw == Swap(v, t.v)
         IN IF t.m.threw THEN [m |-> t.m, v |-> v, ret |-> 0]
            ELSE [m |-> Destroy(t.m, sw.w), v |-> sw.v, ret |-> 0]

\* Vector::operator=(const Vector& other); same says this == &other.
CopyAssign(m, v, other, same) ==
    IF same THEN [m |-> m, v |-> v, ret |-> 0]
    ELSE IF v.capacity_ < other.size_
    THEN LET t == CopyConstruct(m, other)
             sw == Swap(v, t.v)
         IN IF t.m.threw THEN [m |-> t.m, v |-> v, ret |-> 0]
            ELSE [m |-> Destroy(t.m, sw.w), v |-> sw.v, ret |-> 0]
    ELSE IF v.size_ > other.size_
    THEN LET m1 == destroy_n(m, v.buffer_, other.size_, v.size_ - other.size_)
             m2 == AssignLoop(m1, v.buffer_, other.buffer_, 0, other.size_)
         IN IF m2.threw THEN [m |-> m2, v |-> v, ret |-> 0]
            ELSE [m |-> m2, v |-> [v EXCEPT !.size_ = other.size_], ret |-> 0]
    ELSE LET m1 == AssignLoop(m, v.buffer_, other.buffer_, 0, v.size_)
             m2 == IF m1.threw THEN m1
                   ELSE uninitialized_copy_n(m1, other.buffer_, v.size_,
                                             other.size_ - v.size_, v.buffer_, v.size_)
         IN IF m2.threw THEN [m |-> m2, v |-> v, ret |-> 0]
            ELSE [m |-> m2, v |-> [v EXCEPT !.size_ = other.size_], ret |-> 0]

\* data_ of a Vector, and a RawMemory that owns nothing.
Data(v) == [buffer_ |-> v.buffer_, capacity_ |-> v.capacity_]

NullData == [buffer_ |-> 0, capacity_ |-> 0]

\* Mutant: the source keeps its buffer_ and capacity_.
RawMemory_move_keeps_source(other) == [data |-> other, other |-> other]

\* RawMemory(RawMemory&& other)
RawMemory_move(other) == [data |-> other, other |-> NullData]

\* RawMemory::operator=(RawMemory&& rhs); same says this == &rhs.
RawMemory_assign(m, data, rhs, same) ==
    IF same THEN [m |-> m, data |-> data, rhs |-> data]
    ELSE [m |-> Deallocate(Log(m, "swap", rhs.buffer_), data.buffer_),
          data |-> rhs, rhs |-> NullData]

\* Vector(size_t size); when T() throws, data_ is released again.
SizedConstruct(m, size) ==
    LET r == RawMemory(m, size)
        m1 == uninitialized_value_construct_n(r.m, r.data.buffer_, 0, size)
    IN IF m1.threw THEN [m |-> Deallocate(m1, r.data.buffer_), v |-> NullVector]
       ELSE [m |-> m1,
             v |-> [buffer_ |-> r.data.buffer_, capacity_ |-> size, size_ |-> size]]

\* Vector(Vector&& other)
MoveConstruct(m, other) ==
    LET d == RawMemory_move(Data(other))
        e == RawMemory_assign(m, d.other, NullData, FALSE)
    IN [m |-> e.m,
        v |-> [buffer_ |-> d.data.buffer_, capacity_ |-> d.data.capacity_,
               size_ |-> other.size_],
        other |-> [buffer_ |-> e.data.buffer_, capacity_ |-> e.data.capacity_,
                   size_ |-> 0]]

\* Mutant: the source keeps its size_.
MoveAssign_keeps_source_size(m, v, other, same) ==
    IF same THEN [m |-> m, v |-> v, other |-> v]
    ELSE LET a == RawMemory_assign(m, Data(v), Data(other), FALSE)
         IN [m |-> a.m,
             v |-> [buffer_ |-> a.data.buffer_, capacity_ |-> a.data.capacity_,
                    size_ |-> other.size_],
             other |-> [buffer_ |-> a.rhs.buffer_, capacity_ |-> a.rhs.capacity_,
                        size_ |-> other.size_]]

\* Mutant: no test of this != &other in Vector; RawMemory still makes its own.
MoveAssign_no_self_test(m, v, other, same) ==
    LET a == RawMemory_assign(m, Data(v), Data(other), same)
    IN [m |-> a.m,
        v |-> [buffer_ |-> a.data.buffer_, capacity_ |-> a.data.capacity_,
               size_ |-> IF same THEN 0 ELSE other.size_],
        other |-> [buffer_ |-> a.rhs.buffer_, capacity_ |-> a.rhs.capacity_,
                   size_ |-> 0]]

\* Vector::operator=(Vector&& other); same says this == &other.
MoveAssign(m, v, other, same) ==
    IF same THEN [m |-> m, v |-> v, other |-> v]
    ELSE LET a == RawMemory_assign(m, Data(v), Data(other), FALSE)
         IN [m |-> a.m,
             v |-> [buffer_ |-> a.data.buffer_, capacity_ |-> a.data.capacity_,
                    size_ |-> other.size_],
             other |-> [buffer_ |-> a.rhs.buffer_, capacity_ |-> a.rhs.capacity_,
                        size_ |-> 0]]

\* v[index] = x: operator[] and T's copy assignment, which may throw.
Write(m, v, index, x) ==
    [m |-> IF m.f = 1 THEN [m EXCEPT !.f = 0, !.threw = TRUE]
           ELSE [m EXCEPT !.h = Fill(m.h, v.buffer_, index, index + 1, x),
                          !.f = Dec(m.f, 1), !.ops = m.ops + 1,
                          !.bad = m.bad + CountIn(m.h, v.buffer_, index, index + 1, FALSE)],
     v |-> v, ret |-> 0]

\* ------------------------------------------------------------- actions
\* The trace of a call on a container whose block was old when the call began:
\* each step with the block it acted on, data_ (the container's) or new_data.
Steps(trace, old) ==
    [k \in 1..Len(trace) |->
        <<trace[k][1], IF trace[k][2] = old THEN "data_" ELSE "new_data">>]

\* One call of a member function of container c with fault input f. The call
\* is taken only when a requested fault really happened in it. A destroy or a
\* read of a slot that holds no object is undefined behaviour: the program
\* either goes on or is stopped there.
Invoke(c, op, r, f, realloc, pos, arg) ==
    /\ ~crashed
    /\ c \in scope
    /\ f # 0 => r.m.threw
    /\ vec' = [vec EXCEPT ![c] = r.v]
    /\ heap' = r.m.h
    /\ last' = [op |-> op, c |-> c, ok |-> ~r.m.threw, realloc |-> realloc,
                pos |-> pos, arg |-> arg, ret |-> r.ret, f |-> f,
                bad |-> r.m.bad, leak |-> r.m.leak, refree |-> r.m.refree,
                trace |-> Steps(r.m.trace, vec[c].buffer_)]
    /\ crashed' \in (IF r.m.bad > 0 THEN {FALSE, TRUE} ELSE {FALSE})
    /\ UNCHANGED nothrow_move

Call(c, op, r, f, realloc, pos, arg) ==
    /\ Invoke(c, op, r, f, realloc, pos, arg)
    /\ UNCHANGED <<count, scope, copied>>

\* A step of the program: call op on container c leaves the containers as
\* newvec, the machine as m and the constructed containers as newscope.
Transition(c, op, newvec, m, f, realloc, pos, arg, newscope) ==
    /\ ~crashed
    /\ f # 0 => m.threw
    /\ vec' = newvec
    /\ heap' = m.h
    /\ last' = [op |-> op, c |-> c, ok |-> ~m.threw, realloc |-> realloc,
                pos |-> pos, arg |-> arg, ret |-> 0, f |-> f,
                bad |-> m.bad, leak |-> m.leak, refree |-> m.refree,
                trace |-> Steps(m.trace, vec[c].buffer_)]
    /\ crashed' \in (IF m.bad > 0 THEN {FALSE, TRUE} ELSE {FALSE})
    /\ scope' = newscope
    /\ UNCHANGED <<nothrow_move, count>>

Step(c, op, newvec, m, f, realloc, pos, arg, newscope) ==
    /\ Transition(c, op, newvec, m, f, realloc, pos, arg, newscope)
    /\ UNCHANGED copied

\* The fault inputs of a call: none, or any of the element operations that
\* may throw in the run r of the call in which none does.
Faults(r) == 0..r.m.ops

CanGrowTo(v, cap) == v.size_ = v.capacity_ => GrownCapacity(v) <= cap

CanGrow(v) == CanGrowTo(v, MaxCap)

AtCapacity(v) == v.size_ = v.capacity_

DoPushBack(c) ==
    \E x \in Values, f \in Faults(EmplaceBack(Machine(heap, 0), vec[c], ByValue(0))) :
        /\ CanGrow(vec[c])
        /\ Call(c, "PushBack", EmplaceBack(Machine(heap, f), vec[c], ByValue(x)), f,
                AtCapacity(vec[c]), vec[c].size_, x)

DoPopBack(c) ==
    /\ vec[c].size_ > 0
    /\ Call(c, "PopBack", PopBack(Machine(heap, 0), vec[c]), 0, FALSE, 0, 0)

DoReserve(c) ==
    \E n \in 0..MaxCap :
        \E f \in Faults(Reserve(Machine(heap, 0), vec[c], n)) :
        /\ Call(c, "Reserve", Reserve(Machine(heap, f), vec[c], n), f,
                n > vec[c].capacity_, 0, n)

\* v.PushBack(v[i]): the argument is a reference to an element of v itself.
DoPushBackRef(c) ==
    \E i \in 0..(vec[c].size_ - 1) :
        /\ CanGrow(vec[c])
        /\ Call(c, "PushBackRef", EmplaceBack(Machine(heap, 0), vec[c], ByRef(vec[c], i)), 0,
                AtCapacity(vec[c]), vec[c].size_, i)

DoInsert(c) ==
    \E p \in 0..vec[c].size_, x \in Values :
        \E f \in Faults(Emplace(Machine(heap, 0), vec[c], p, ByValue(x))) :
        /\ CanGrow(vec[c])
        /\ Call(c, "Insert", Emplace(Machine(heap, f), vec[c], p, ByValue(x)), f,
                AtCapacity(vec[c]), p, x)

\* v.Insert(v.begin() + p, v[i])
DoInsertRef(c) ==
    \E p \in 0..vec[c].size_, i \in 0..(vec[c].size_ - 1) :
        /\ CanGrow(vec[c])
        /\ Call(c, "InsertRef", Emplace(Machine(heap, 0), vec[c], p, ByRef(vec[c], i)), 0,
                AtCapacity(vec[c]), p, i)

DoErase(c) ==
    \E p \in 0..(vec[c].size_ - 1) :
        \E f \in Faults(Erase(Machine(heap, 0), vec[c], p)) :
        /\ Call(c, "Erase", Erase(Machine(heap, f), vec[c], p), f, FALSE, p, 0)

DoResize(c) ==
    \E n \in 0..MaxCap :
        \E f \in Faults(Resize(Machine(heap, 0), vec[c], n)) :
        /\ Call(c, "Resize", Resize(Machine(heap, f), vec[c], n), f,
                n > vec[c].capacity_, 0, n)

\* c = o by copy assignment; arg records whether o is c itself.
DoCopyAssign(c, o) ==
    \E f \in Faults(CopyAssign(Machine(heap, 0), vec[c], vec[o], c = o)) :
        Call(c, "CopyAssign", CopyAssign(Machine(heap, f), vec[c], vec[o], c = o), f,
             c # o /\ vec[c].capacity_ < vec[o].size_, 0, IF c = o THEN 1 ELSE 0)

\* c = std::move(o); arg records whether o is c itself.
DoMoveAssign(c, o) ==
    LET r == MoveAssign(Machine(heap, 0), vec[c], vec[o], c = o)
    IN /\ c \in scope /\ o \in scope
       /\ Step(c, "MoveAssign", [vec EXCEPT ![o] = r.other, ![c] = r.v], r.m, 0,
               FALSE, 0, IF c = o THEN 1 ELSE 0, scope)

\* c.Swap(o)
DoSwap(c, o) ==
    LET r == Swap(vec[c], vec[o])
    IN /\ c \in scope /\ o \in scope
       /\ Step(c, "Swap", [vec EXCEPT ![o] = r.w, ![c] = r.v], Machine(heap, 0), 0,
               FALSE, 0, IF c = o THEN 1 ELSE 0, scope)

\* c[i] = x
DoWrite(c) ==
    \E i \in 0..(vec[c].size_ - 1), x \in Values, f \in 0..1 :
        Call(c, "Write", Write(Machine(heap, f), vec[c], i, x), f, FALSE, i, x)

\* Vector c; the default constructor.
DoConstruct(c) ==
    /\ c \notin scope
    /\ Step(c, "Vector", [vec EXCEPT ![c] = NullVector], Machine(heap, 0), 0,
            FALSE, 0, 0, scope \cup {c})

\* Vector c(n)
DoSizedConstruct(c) ==
    \E n \in 0..MaxSized :
        \E f \in Faults(SizedConstruct(Machine(heap, 0), n)) :
            LET r == SizedConstruct(Machine(heap, f), n)
            IN /\ c \notin scope
               /\ Step(c, "SizedConstruct", [vec EXCEPT ![c] = r.v], r.m, f, n > 0, 0, n,
                       IF r.m.threw THEN scope ELSE scope \cup {c})

\* Vector c(o)
DoCopyConstruct(c, o) ==
    \E f \in Faults(CopyConstruct(Machine(heap, 0), vec[o])) :
        LET r == CopyConstruct(Machine(heap, f), vec[o])
        IN /\ c \notin scope /\ o \in scope
           /\ Step(c, "CopyConstruct", [vec EXCEPT ![c] = r.v], r.m, f,
                   vec[o].size_ > 0, 0, 0,
                   IF r.m.threw THEN scope ELSE scope \cup {c})

\* Vector c(std::move(o))
DoMoveConstruct(c, o) ==
    LET r == MoveConstruct(Machine(heap, 0), vec[o])
    IN /\ c \notin scope /\ o \in scope
       /\ Step(c, "MoveConstruct", [vec EXCEPT ![o] = r.other, ![c] = r.v], r.m, 0,
               FALSE, 0, 0, scope \cup {c})

\* c goes out of scope: ~Vector, then ~RawMemory of its data_.
DoDestroy(c) ==
    /\ c \in scope
    /\ Step(c, "~Vector", [vec EXCEPT ![c] = NullVector],
            Destroy(Machine(heap, 0), vec[c]), 0, FALSE, 0, 0, scope \ {c})

\* The copies that keep note, in copied, that one container has been produced
\* from the other by a copy that completed and that both exist since.
TrackedCopyAssign(c, o) ==
    \E f \in Faults(CopyAssign(Machine(heap, 0), vec[c], vec[o], FALSE)) :
        /\ c # o
        /\ Invoke(c, "CopyAssign", CopyAssign(Machine(heap, f), vec[c], vec[o], FALSE), f,
                  vec[c].capacity_ < vec[o].size_, 0, 0)
        /\ copied' = (copied \/ last'.ok)
        /\ UNCHANGED <<count, scope>>

TrackedCopyConstruct(c, o) ==
    \E f \in Faults(CopyConstruct(Machine(heap, 0), vec[o])) :
        LET r == CopyConstruct(Machine(heap, f), vec[o])
        IN /\ c \notin scope /\ o \in scope
           /\ Transition(c, "CopyConstruct", [vec EXCEPT ![c] = r.v], r.m, f,
                         vec[o].size_ > 0, 0, 0,
                         IF r.m.threw THEN scope ELSE scope \cup {c})
           /\ copied' = ~r.m.threw

TrackedDestroy(c) ==
    /\ c \in scope
    /\ Transition(c, "~Vector", [vec EXCEPT ![c] = NullVector],
                  Destroy(Machine(heap, 0), vec[c]), 0, FALSE, 0, 0, scope \ {c})
    /\ copied' = FALSE

\* The push/pop runs that keep count of the calls that completed.
CountedPushBack ==
    \E x \in Values, f \in Faults(EmplaceBack(Machine(heap, 0), vec["a"], ByValue(0))) :
        /\ count.pushes + count.pops < MaxOps
        /\ Invoke("a", "PushBack", EmplaceBack(Machine(heap, f), vec["a"], ByValue(x)), f,
                  AtCapacity(vec["a"]), vec["a"].size_, x)
        /\ count' = [count EXCEPT !.pushes = IF last'.ok THEN @ + 1 ELSE @]
        /\ UNCHANGED <<scope, copied>>

CountedPopBack ==
    /\ count.pushes + count.pops < MaxOps
    /\ vec["a"].size_ > 0
    /\ Invoke("a", "PopBack", PopBack(Machine(heap, 0), vec["a"]), 0, FALSE, 0, 0)
    /\ count' = [count EXCEPT !.pops = @ + 1]
    /\ UNCHANGED <<scope, copied>>

Init ==
    /\ vec = [c \in Vecs |-> NullVector]
    /\ heap = [b \in Blocks |-> <<>>]
    /\ nothrow_move \in BOOLEAN
    /\ last = [op |-> "Vector", c |-> "a", ok |-> TRUE, realloc |-> FALSE,
               pos |-> 0, arg |-> 0, ret |-> 0, f |-> 0, bad |-> 0, leak |-> 0,
               refree |-> 0, trace |-> <<>>]
    /\ crashed = FALSE
    /\ count = [pushes |-> 0, pops |-> 0]
    /\ scope = Vecs
    /\ copied = FALSE

\* One container, every member function.
Next ==
    \/ DoPushBack("a")
    \/ DoPopBack("a")
    \/ DoReserve("a")
    \/ DoPushBackRef("a")
    \/ DoInsert("a")
    \/ DoInsertRef("a")
    \/ DoErase("a")
    \/ DoResize("a")

Spec == Init /\ [][Next]_vars

\* Two containers of at most MaxCapTwo slots, and the assignments between them.
NextTwo ==
    \/ \E c \in Vecs : CanGrowTo(vec[c], MaxCapTwo) /\ DoPushBack(c)
    \/ \E c \in Vecs : DoPopBack(c)
    \/ \E c \in Vecs, o \in Vecs : DoCopyAssign(c, o)

SpecTwo == Init /\ [][NextTwo]_vars

\* Two containers that are constructed, copied, moved, swapped and destroyed.
NextLife ==
    \/ \E c \in Vecs : CanGrowTo(vec[c], MaxCapTwo) /\ DoPushBack(c)
    \/ \E c \in Vecs : DoPopBack(c)
    \/ \E c \in Vecs, o \in Vecs : DoCopyAssign(c, o)
    \/ \E c \in Vecs, o \in Vecs : DoMoveAssign(c, o)
    \/ \E c \in Vecs, o \in Vecs : DoSwap(c, o)
    \/ \E c \in Vecs : DoConstruct(c)
    \/ \E c \in Vecs : DoSizedConstruct(c)
    \/ \E c \in Vecs, o \in Vecs : DoCopyConstruct(c, o)
    \/ \E c \in Vecs, o \in Vecs : DoMoveConstruct(c, o)
    \/ \E c \in Vecs : DoDestroy(c)

SpecLife == Init /\ [][NextLife]_vars

\* Two containers of at most MaxCapTwo slots: b is filled, a is produced from
\* b by a copy, and from then on each is changed by every mutating member
\* function, in the calls that complete.
NextCopy ==
    \/ TrackedCopyAssign("a", "b")
    \/ TrackedCopyConstruct("a", "b")
    \/ TrackedDestroy("a")
    \/ \E c \in Vecs : (copied \/ c = "b") /\ CanGrowTo(vec[c], MaxCapTwo) /\ DoPushBack(c) /\ last'.ok
    \/ \E c \in Vecs : copied /\ DoPopBack(c) /\ last'.ok
    \/ \E c \in Vecs : copied /\ CanGrowTo(vec[c], MaxCapTwo) /\ DoInsert(c) /\ last'.ok
    \/ \E c \in Vecs : copied /\ DoErase(c) /\ last'.ok
    \/ \E c \in Vecs : copied /\ DoResize(c) /\ vec'[c].capacity_ <= MaxCapTwo /\ last'.ok
    \/ \E c \in Vecs : copied /\ DoReserve(c) /\ vec'[c].capacity_ <= MaxCapTwo /\ last'.ok
    \/ \E c \in Vecs : copied /\ DoWrite(c) /\ last'.ok

SpecCopy == Init /\ [][NextCopy]_vars

\* One container that only grows: PushBack and Insert, by value and by
\* reference to an own element.
NextGrow ==
    \/ DoPushBack("a")
    \/ DoPushBackRef("a")
    \/ DoInsert("a")
    \/ DoInsertRef("a")

SpecGrow == Init /\ [][NextGrow]_vars

\* Push and pop on one container, counted.
NextPushPop ==
    \/ CountedPushBack
    \/ CountedPopBack

SpecPushPop == Init /\ [][NextPushPop]_vars

\* ------------------------------------------------------------- claims
\* The elements of a container, first to last.
Elems(v, h) == [i \in 1..v.size_ |-> Slot(h, v.buffer_, i - 1)]

\* Sequence s with x put in front of its element at index p (from 0).
InsertedAt(s, p, x) == SubSeq(s, 1, p) \o <<x>> \o SubSeq(s, p + 1, Len(s))

\* Sequence s without its element at index p (from 0).
ErasedAt(s, p) == SubSeq(s, 1, p) \o SubSeq(s, p + 2, Len(s))

\* C1: an Insert/Emplace of value x at position p that completes gives size
\* n+1, the old elements before p unchanged, x at p, the old elements from p
\* on one place further, and returns position p of the container's storage;
\* on the reallocating path and on the in-place path alike.
C1_InsertStep ==
    (last'.op = "Insert" /\ last'.ok) =>
        LET c == last'.c
        IN /\ vec'[c].size_ = vec[c].size_ + 1
           /\ Elems(vec'[c], heap') = InsertedAt(Elems(vec[c], heap), last'.pos, last'.arg)
           /\ last'.ret = last'.pos
           /\ last'.realloc = (vec[c].size_ = vec[c].capacity_)

C1_InsertPlacesElement == [][C1_InsertStep]_vars

C1_Witness ==
    /\ last.op = "Insert" /\ last.ok /\ last.realloc
    /\ last.pos = 1 /\ vec[last.c].size_ = 3 /\ last.arg = 1

\* C2: Erase at position p < n gives size n-1, the elements before p
\* unchanged, the elements after p one place nearer, the capacity unchanged,
\* and returns position p.
C2_EraseStep ==
    (last'.op = "Erase" /\ last'.ok) =>
        LET c == last'.c
        IN /\ vec'[c].size_ = vec[c].size_ - 1
           /\ Elems(vec'[c], heap') = ErasedAt(Elems(vec[c], heap), last'.pos)
           /\ vec'[c].capacity_ = vec[c].capacity_
           /\ last'.ret = last'.pos

C2_EraseRemovesElement == [][C2_EraseStep]_vars

C2_Witness ==
    /\ last.op = "Erase" /\ last.ok
    /\ last.pos = 0 /\ vec[last.c].size_ = 2
    /\ Elems(vec[last.c], heap) = <<0, 1>>

\* C3: after any run of PushBack and PopBack calls on an empty container the
\* size is the number of pushes minus the number of pops, and no step lowers
\* the capacity.
C3_PushPopSize ==
    /\ [](vec["a"].size_ = count.pushes - count.pops)
    /\ [][vec'["a"].capacity_ >= vec["a"].capacity_]_vars

C3_Witness ==
    /\ count.pushes = 4 /\ count.pops = 2
    /\ vec["a"].size_ = 2 /\ vec["a"].capacity_ = 4

\* C4: PushBack(v[i]) appends the value element i held before the call and
\* keeps every earlier element, with and without reallocation; the argument
\* is read while the object it refers to is still alive.
C4_PushBackRefStep ==
    (last'.op = "PushBackRef" /\ last'.ok) =>
        LET c == last'.c
            old == Elems(vec[c], heap)
        IN /\ Elems(vec'[c], heap') = Append(old, old[last'.arg + 1])
           /\ last'.bad = 0

C4_PushBackOfOwnElement == [][C4_PushBackRefStep]_vars

C4_Witness ==
    /\ last.op = "PushBackRef" /\ last.ok /\ last.realloc /\ nothrow_move
    /\ last.arg = 1 /\ Elems(vec[last.c], heap) = <<0, 1, 1>>

\* C5: Insert(p, v[i]) puts at p the value element i held before the call and
\* keeps all other elements in their order, with and without reallocation.
C5_InsertRefStep ==
    (last'.op = "InsertRef" /\ last'.ok) =>
        LET c == last'.c
            old == Elems(vec[c], heap)
        IN /\ Elems(vec'[c], heap') = InsertedAt(old, last'.pos, old[last'.arg + 1])
           /\ last'.bad = 0

C5_InsertOfOwnElement == [][C5_InsertRefStep]_vars

C5_Witness ==
    /\ last.op = "InsertRef" /\ last.ok /\ ~last.realloc
    /\ last.pos = 0 /\ last.arg = 1 /\ Elems(vec[last.c], heap) = <<1, 0, 1>>

\* C6: when an Insert/Emplace that reallocates relocates by copy and a copy
\* throws, in the prefix or in the suffix, exactly the elements constructed
\* in the new block are destroyed, once each, none that holds no object, and
\* the container keeps its size, capacity, storage and elements.
C6_CopyFailureStep ==
    (last'.op = "Insert" /\ last'.realloc /\ ~last'.ok /\ last'.f >= 2) =>
        /\ last'.bad = 0
        /\ last'.leak = 0
        /\ vec' = vec
        /\ heap' = heap

C6_InsertRollbackIsExact == [][C6_CopyFailureStep]_vars

\* C7: when Reserve beyond the capacity, or PushBack at capacity, relocates by
\* copy and a copy throws, the call fails and the container keeps its size,
\* capacity, storage block and elements; what was constructed in the new
\* block is destroyed once each and the new block is released.
C7_CopyFailureStep ==
    (last'.op \in {"Reserve", "PushBack"} /\ last'.realloc /\ ~last'.ok) =>
        /\ vec' = vec
        /\ heap' = heap
        /\ last'.bad = 0
        /\ last'.leak = 0

C7_ReallocationRollsBack == [][C7_CopyFailureStep]_vars

C7_Witness ==
    /\ last.op = "PushBack" /\ last.realloc /\ ~last.ok
    /\ last.f = 3 /\ vec[last.c].size_ = 2 /\ vec[last.c].capacity_ = 2

\* C8: when an in-place Insert/Emplace before end() fails in a move assignment
\* of the shift or in the assignment into pos, the element constructed at the
\* end is destroyed, the size is unchanged and the elements hold the values
\* they held before the call, in the same order.
C8_ShiftFailureStep ==
    (last'.op = "Insert" /\ ~last'.realloc /\ ~last'.ok /\ last'.f >= 3
        /\ last'.pos < vec[last'.c].size_) =>
        LET c == last'.c
        IN /\ vec'[c] = vec[c]
           /\ Slot(heap', vec[c].buffer_, vec[c].size_) = Raw
           /\ Elems(vec'[c], heap') = Elems(vec[c], heap)

C8_InPlaceInsertRollsBack == [][C8_ShiftFailureStep]_vars

\* C9: between calls, also after a call that failed, every container has
\* size <= capacity, a live element in each slot below size and no live
\* element in the slots from size to capacity.
Representation(c) ==
    LET v == vec[c]
    IN /\ v.size_ <= v.capacity_
       /\ (v.capacity_ > 0) => (v.buffer_ # 0 /\ Len(heap[v.buffer_]) = v.capacity_)
       /\ \A i \in 0..(v.capacity_ - 1) :
              v.buffer_ # 0 => (IsLive(Slot(heap, v.buffer_, i)) <=> i < v.size_)

C9_RepresentationInvariant == \A c \in Vecs : Representation(c)

\* C10: when a copy construction or copy assignment of an element throws
\* during a = b, in any of the three branches, a is left with the size and
\* the elements it had.
C10_CopyAssignFailureStep ==
    (last'.op = "CopyAssign" /\ ~last'.ok) =>
        LET c == last'.c
        IN /\ vec'[c].size_ = vec[c].size_
           /\ Elems(vec'[c], heap') = Elems(vec[c], heap)

C10_CopyAssignRollsBack == [][C10_CopyAssignFailureStep]_vars

\* The container of the model that is not c.
Other(c) == CHOOSE o \in Vecs : o # c

\* C11: a copy assignment a = b, a and b distinct, that completes without
\* touching a slot that holds no object gives a the size and the elements of
\* b and leaves b as it was; when a's capacity was below b's size it becomes
\* exactly b's size, otherwise a keeps its capacity and its storage block.
C11_CopyAssignStep ==
    (last'.op = "CopyAssign" /\ last'.ok /\ last'.arg = 0 /\ last'.bad = 0) =>
        LET c == last'.c
            o == Other(c)
        IN /\ vec'[c].size_ = vec[o].size_
           /\ Elems(vec'[c], heap') = Elems(vec[o], heap)
           /\ vec'[o] = vec[o]
           /\ Elems(vec'[o], heap') = Elems(vec[o], heap)
           /\ IF vec[c].capacity_ < vec[o].size_
              THEN vec'[c].capacity_ = vec[o].size_
              ELSE /\ vec'[c].capacity_ = vec[c].capacity_
                   /\ vec'[c].buffer_ = vec[c].buffer_

C11_CopyAssignCopies == [][C11_CopyAssignStep]_vars

C11_Witness ==
    /\ last.op = "CopyAssign" /\ last.ok /\ last.arg = 0 /\ last.bad = 0
    /\ ~last.realloc /\ last.trace = << <<"transfer", "data_">> >>
    /\ Elems(vec[last.c], heap) = <<0, 1>>
    /\ Elems(vec[Other(last.c)], heap) = <<0, 1>>

\* C12: Reserve(k) with k <= capacity changes nothing: size, capacity, the
\* elements and the storage block stay; Reserve(k) with k > capacity that
\* completes sets the capacity to exactly k and keeps the size and the
\* elements in their order.
C12_ReserveStep ==
    (last'.op = "Reserve" /\ last'.ok) =>
        LET c == last'.c
            k == last'.arg
        IN IF k <= vec[c].capacity_
           THEN vec'[c] = vec[c] /\ heap' = heap
           ELSE /\ vec'[c].capacity_ = k
                /\ vec'[c].size_ = vec[c].size_
                /\ Elems(vec'[c], heap') = Elems(vec[c], heap)

C12_ReserveKeepsElements == [][C12_ReserveStep]_vars

C12_Witness ==
    /\ last.op = "Reserve" /\ last.ok /\ last.realloc /\ last.arg = 3
    /\ vec[last.c].capacity_ = 3 /\ Elems(vec[last.c], heap) = <<0, 1>>

\* The steps of a call that construct, copy or move an element.
ElementSteps(trace) == {k \in 1..Len(trace) : trace[k][1] \in {"construct", "transfer"}}

\* C13: after a move construction from a source, or a move assignment from a
\* distinct source, the source has size 0 and capacity 0 and owns no block,
\* and the destination has the size, the capacity and the elements the
\* source had, in the block the source had, no element copied or moved.
C13_MoveStep ==
    ((last'.op = "MoveAssign" /\ last'.arg = 0) \/ last'.op = "MoveConstruct") =>
        LET c == last'.c
            o == Other(c)
        IN /\ vec'[o] = NullVector
           /\ vec'[c] = vec[o]
           /\ Elems(vec'[c], heap') = Elems(vec[o], heap)
           /\ vec[o].buffer_ # 0 => heap'[vec[o].buffer_] = heap[vec[o].buffer_]
           /\ ElementSteps(last'.trace) = {}

Mutators == {"PushBack", "PopBack", "Insert", "Erase", "Resize", "Reserve", "Write"}

\* C14: once one container has been produced from the other by a copy
\* construction or a copy assignment, the two own distinct storage blocks,
\* and any later PushBack, PopBack, Insert, Erase, Resize, Reserve or element
\* write on either leaves the size, the capacity and the elements of the
\* other unchanged.
C14_MutationStep ==
    (copied /\ last'.op \in Mutators) =>
        LET d == Other(last'.c)
        IN /\ vec'[d] = vec[d]
           /\ Elems(vec'[d], heap') = Elems(vec[d], heap)

C14_DistinctBlocks ==
    copied' => (vec'["a"].buffer_ # vec'["b"].buffer_ \/ vec'["a"].buffer_ = 0)

C14_CopiesAreIndependent == [][C14_MutationStep /\ C14_DistinctBlocks]_vars

C14_Witness ==
    /\ copied /\ last.op = "Insert" /\ last.ok /\ last.c = "b" /\ last.realloc
    /\ Elems(vec["b"], heap) = <<1, 0>> /\ Elems(vec["a"], heap) = <<0>>

\* C15: a copy assignment or a move assignment of a container to itself
\* leaves its size, capacity, storage block and elements as they were,
\* destroys no element and releases no storage.
C15_SelfAssignStep ==
    (last'.op \in {"CopyAssign", "MoveAssign"} /\ last'.arg = 1) =>
        /\ vec' = vec
        /\ heap' = heap
        /\ last'.trace = <<>>
        /\ last'.ok

C15_SelfAssignIsNoOp == [][C15_SelfAssignStep]_vars

C15_Witness ==
    /\ last.op = "MoveAssign" /\ last.arg = 1
    /\ vec[last.c].capacity_ = 2 /\ Elems(vec[last.c], heap) = <<1>>

\* The smallest power of two that is >= n, and 0 for n = 0.
RECURSIVE PowerOfTwoFrom(_, _)
PowerOfTwoFrom(p, n) == IF p >= n THEN p ELSE PowerOfTwoFrom(2 * p, n)

CeilPowerOfTwo(n) == IF n = 0 THEN 0 ELSE PowerOfTwoFrom(1, n)

\* C16: a PushBack/EmplaceBack or Insert/Emplace that completes with
\* size = capacity sets the capacity to 1 when it was 0 and to twice the old
\* capacity otherwise; with size < capacity it keeps the capacity and the
\* storage block. Hence a container that was only pushed and inserted into
\* has the smallest power of two >= its size as capacity (1,2,4,4,8,...).
C16_GrowthStep ==
    (last'.op \in {"PushBack", "PushBackRef", "Insert", "InsertRef"} /\ last'.ok) =>
        LET v == vec[last'.c]
            w == vec'[last'.c]
        IN IF v.size_ = v.capacity_
           THEN w.capacity_ = (IF v.capacity_ = 0 THEN 1 ELSE 2 * v.capacity_)
           ELSE w.capacity_ = v.capacity_ /\ w.buffer_ = v.buffer_

C16_GrowthPolicy ==
    /\ [][C16_GrowthStep]_vars
    /\ [](vec["a"].capacity_ = CeilPowerOfTwo(vec["a"].size_))

C16_Witness ==
    /\ last.op = "PushBack" /\ last.ok /\ last.realloc
    /\ vec["a"].size_ = 3 /\ vec["a"].capacity_ = 4

\* C17: after a Resize(n) that completes on a container of size s and
\* capacity c the size is n, the first min(n, s) elements are unchanged, the
\* elements s..n-1 (n > s) are value-initialised, the elements n..s-1 (n < s)
\* have been destroyed, and the capacity is n when n > c and c otherwise.
C17_ResizeStep ==
    (last'.op = "Resize" /\ last'.ok) =>
        LET v == vec[last'.c]
            w == vec'[last'.c]
            n == last'.arg
        IN /\ w.size_ = n
           /\ \A i \in 0..(n - 1) :
                  Slot(heap', w.buffer_, i) =
                      (IF i < v.size_ THEN Slot(heap, v.buffer_, i) ELSE DefaultValue)
           /\ \A i \in n..(v.size_ - 1) : Slot(heap', w.buffer_, i) = Raw
           /\ last'.bad = 0
           /\ w.capacity_ = (IF n > v.capacity_ THEN n ELSE v.capacity_)

C17_ResizeSetsSize == [][C17_ResizeStep]_vars

C17_Witness ==
    /\ last.op = "Resize" /\ last.ok /\ last.realloc /\ last.arg = 3
    /\ vec[last.c].capacity_ = 3 /\ Elems(vec[last.c], heap) = <<1, 0, 0>>

\* The steps of a reallocation, in order: the new block is allocated, the new
\* element (when there is one) is constructed in it, the old elements are
\* constructed in it (in n transfers), the old elements are destroyed, the
\* blocks are swapped, and the old block is released.
Relocation(new_element, n) ==
    << <<"allocate", "new_data">> >>
    \o (IF new_element THEN << <<"construct", "new_data">> >> ELSE <<>>)
    \o [k \in 1..n |-> <<"transfer", "new_data">>]
    \o << <<"destroy", "data_">>, <<"swap", "new_data">>, <<"release", "data_">> >>

\* C18: a Reserve beyond the capacity, a PushBack/EmplaceBack at capacity and
\* an Insert/Emplace at capacity take their steps in this order: allocate the
\* new block, construct the new element in it, construct every old element
\* in it, destroy the old elements, swap the blocks. No old element is
\* destroyed before the new block is complete (none at all when the call
\* fails), and the container changes its block in the swap only.
C18_ReallocationStep ==
    last'.realloc =>
        /\ (last'.op = "Reserve" /\ last'.ok) => last'.trace = Relocation(FALSE, 1)
        /\ (last'.op \in {"PushBack", "PushBackRef"} /\ last'.ok) =>
               last'.trace = Relocation(TRUE, 1)
        /\ (last'.op \in {"Insert", "InsertRef"} /\ last'.ok) =>
               last'.trace = Relocation(TRUE, 2)
        /\ (last'.op \in {"Reserve", "PushBack", "PushBackRef", "Insert", "InsertRef"}
               /\ ~last'.ok) =>
               /\ \A k \in 1..Len(last'.trace) :
                      last'.trace[k] \notin {<<"destroy", "data_">>, <<"swap", "new_data">>}
               /\ vec' = vec

C18_ReallocationOrder == [][C18_ReallocationStep]_vars

C18_Witness ==
    /\ last.op = "Insert" /\ last.ok /\ last.realloc /\ ~nothrow_move
    /\ last.pos = 1 /\ vec[last.c].size_ = 3
    /\ last.trace = Relocation(TRUE, 2)

\* C19: no storage block is released while one of its slots still holds a
\* live element: at every release (container destruction, reallocation, copy
\* assignment through a temporary, move assignment onto a non-empty
\* destination) the elements constructed in the block have been destroyed.
C19_ReleaseStep == last'.leak = 0

C19_NoLiveElementReleased == [][C19_ReleaseStep]_vars

\* The blocks that are allocated, and the blocks the containers own.
Allocated == {b \in Blocks : heap[b] # <<>>}

Owned == {vec[c].buffer_ : c \in scope} \ {0}

\* C20: in every state, whatever constructions, copies, moves, swaps,
\* reallocations, failed calls and destructions led to it, each allocated
\* block is owned by exactly one container (none is shared, none is leaked),
\* each container's block is allocated and has capacity_ slots (none is used
\* after its release), and no call released a block twice.
C20_ExclusiveOwnership ==
    /\ Allocated = Owned
    /\ \A c \in scope, d \in scope :
           (c # d /\ vec[c].buffer_ # 0) => vec[c].buffer_ # vec[d].buffer_
    /\ \A c \in scope :
           /\ (vec[c].buffer_ = 0) = (vec[c].capacity_ = 0)
           /\ vec[c].buffer_ # 0 => Len(heap[vec[c].buffer_]) = vec[c].capacity_
    /\ \A c \in Vecs \ scope : vec[c] = NullVector
    /\ last.refree = 0

C20_Witness ==
    /\ last.op = "MoveConstruct" /\ scope = Vecs
    /\ Elems(vec[last.c], heap) = <<0, 1>>
    /\ vec[Other(last.c)] = NullVector
    /\ Allocated = {vec[last.c].buffer_}

====
